---- MODULE Spec2Model ----
\* A model of the deployment run of ga-deploy-git (src/src/main.ts and the
\* second revision of the same file, src/unnamed/part_000): reading and
\* resolving the inputs, acquiring the temporary workspace, reconciling the
\* destination branch with the source directory, and releasing the workspace.
\*
\* Text is a sequence of pieces: a template literal is the concatenation of
\* its pieces, so "https://${token}@github.com/${repo}.git" is
\* <<"https://">> \o token \o <<"@github.com/">> \o repo \o <<".git">>.
\* Commit identifiers and commit messages are sequences of single characters,
\* so that substr, split and trim are computed as the code computes them.
EXTENDS Integers, Sequences, FiniteSets, TLC

\* ------------------------------------------------------------------ bounds
MaxMsgLen == 2        \* longest source commit message, in characters

\* ------------------------------------------------------- program constants
MAX_TRIES == 5        \* createTmpDirSync: attempts
ShortShaLen == 7      \* sha.substr(0, 7)
ExitFound == 0        \* git ls-remote --exit-code: a matching ref exists
ExitNotFound == 2     \* git ls-remote --exit-code: no matching ref

\* ------------------------------------------------------------ environment
\* The two revisions of main.ts that the repository holds.
Revs == {"main.ts", "part_000"}

\* The value of an input that the workflow does not set.
Unset == [isSet |-> FALSE, val |-> <<>>]
Given(s) == [isSet |-> TRUE, val |-> s]

\* `undefined` of the language, as a value no text is equal to.
Undefined == <<"<undefined>">>

\* github.context: the trigger context, fixed for a run.
ContextOwner == <<"owner">>
ContextRepo == <<"repo">>
ContextActor == <<"actor">>
ContextWorkflow == <<"workflow">>
ContextRef == <<"refs/heads/master">>
ContextSha == <<"0", "1", "2", "3", "4", "5", "6", "7", "8">>

\* Entries a directory can hold: the version-control metadata directory, a
\* regular file, and a sub-directory that holds no file.
DotGit == ".git"
Files == {"f", "g"}
EmptyDirs == {"d"}
Entries == {DotGit} \cup Files \cup EmptyDirs

\* Commits: the head of the destination branch before the run, when the
\* branch exists, and the commit the run creates. NoCommit is the head of a
\* branch that does not exist and the parent of a root commit.
NoCommit == "none"
OldHead == "c1"
NewCommit == "c2"
NextCommit == "c3"
OtherCommits == {"o1", "o2"}

\* Characters of a source commit message.
Space == " "
LineBreak == "\n"
MsgChars == {"a", Space, LineBreak}

RECURSIVE SeqsUpTo(_, _)
SeqsUpTo(S, n) ==
  IF n = 0 THEN {<<>>}
  ELSE LET shorter == SeqsUpTo(S, n - 1)
       IN  shorter \cup {Append(s, c) : s \in {t \in shorter : Len(t) = n - 1}, c \in S}

Msgs == SeqsUpTo(MsgChars, MaxMsgLen)

\* ------------------------------------------------------------------- text
\* String.prototype.substr(0, n)
Substr0(s, n) == SubSeq(s, 1, IF n < Len(s) THEN n ELSE Len(s))

\* s.split("\n")[0]: the text before the first line break, all of it when
\* there is none.
SplitFirst(s) ==
  LET breaks == {i \in 1..Len(s) : s[i] = LineBreak}
  IN  IF breaks = {} THEN s
      ELSE SubSeq(s, 1, (CHOOSE i \in breaks : \A j \in breaks : i <= j) - 1)

\* String.prototype.trim(): white space removed at both ends.
IsWhite(c) == c \in {Space, LineBreak, "\r", "\t"}
Trim(s) ==
  LET keep == {i \in 1..Len(s) : ~IsWhite(s[i])}
  IN  IF keep = {} THEN <<>>
      ELSE SubSeq(s, CHOOSE i \in keep : \A j \in keep : i <= j,
                     CHOOSE i \in keep : \A j \in keep : j <= i)

\* Array.prototype.join("\n")
RECURSIVE JoinLines(_)
JoinLines(lines) ==
  IF Len(lines) = 0 THEN <<>>
  ELSE IF Len(lines) = 1 THEN lines[1]
  ELSE lines[1] \o <<LineBreak>> \o JoinLines(Tail(lines))

\* Array.prototype.concat over an array of arguments: the pieces of a command
\* line, in order.
RECURSIVE Flatten(_)
Flatten(args) == IF Len(args) = 0 THEN <<>> ELSE args[1] \o Flatten(Tail(args))

\* ------------------------------------------------------------------ state
VARIABLES
  rev,          \* which revision of main.ts runs
  env,          \* the input source: one entry per input key
  srcContent,   \* entries of the directory "." of the source repository
  pc,           \* the statement the run is at
  inputs,       \* getInputs(): Inputs
  resolved,     \* resolveInputs(): ResolvedInputs
  tryCount,     \* createTmpDirSync: tryCount
  tmpDirs,      \* workspace directories that exist under the temp root
  tmpDir,       \* withTmpDir: tmpDir, the attempt that created it (0: none)
  ws,           \* entries of the workspace directory other than .git
  index,        \* files staged in the workspace repository
  head,         \* commit the checked-out branch of the workspace points at
  fetched,      \* dest/<destBranch> after git fetch
  commits,      \* commit objects: id -> [parent, tree, msg]
  remoteHead,   \* head of the destination branch on the remote
  remoteHead0,  \* head of the destination branch when the run started
  lsExit,       \* exit status of git ls-remote (-1: not run)
  destBranchExists,
  isNewBranch,
  isNonEmpty,
  hasChanges,
  rmPending,    \* io.rmRF operations of rmAllExceptDotGit still in progress
  cpPending,    \* io.cp operations of copyAllExceptDotGit still in progress
  srcMsg,       \* message of the triggering commit, as git log printed it
  commitTitle,
  cmds,         \* version-control commands executed so far, in order
  log,          \* lines written to the log
  logAlt,       \* the log of the same run given the other access token
  thrown,       \* the first error thrown: [at |-> statement, msg |-> text]
  envFault,     \* a command or file operation failed for an outside reason
  outcome,      \* "running", "deployed", "skipped" or "failed"
  failure       \* the message given to core.setFailed

vars == <<rev, env, srcContent, pc, inputs, resolved, tryCount, tmpDirs, tmpDir,
          ws, index, head, fetched, commits, remoteHead, remoteHead0, lsExit,
          destBranchExists, isNewBranch, isNonEmpty, hasChanges, rmPending,
          cpPending, srcMsg, commitTitle, cmds, log, logAlt, thrown, envFault,
          outcome, failure>>

\* Groups of variables, for UNCHANGED.
gitVars == <<ws, index, head, fetched, commits, remoteHead>>
flagVars == <<lsExit, destBranchExists, isNewBranch, isNonEmpty, hasChanges>>
batchVars == <<rmPending, cpPending>>
msgVars == <<srcMsg, commitTitle>>
tmpVars == <<tryCount, tmpDirs, tmpDir>>
worldVars == <<rev, env, srcContent, remoteHead0>>

\* ----------------------------------------------------------------- inputs
TokenA == <<"tokenA">>
TokenB == <<"tokenB">>
\* The access token of the paired run, which differs in nothing else.
OtherToken(t) == IF t = TokenA THEN TokenB ELSE t

InputKeys == {"accessToken", "srcDir", "destRepo", "destBranch", "commitUser", "commitEmail"}

InputValues(key) ==
  {Unset, Given(<<>>)} \cup
  CASE key = "accessToken" -> {Given(TokenA)}
    [] key = "srcDir"      -> {Given(<<".">>), Given(<<"build">>)}
    [] key = "destRepo"    -> {Given(<<"other/site">>)}
    [] key = "destBranch"  -> {Given(<<"gh-pages">>)}
    [] key = "commitUser"  -> {Given(<<"bot">>)}
    [] key = "commitEmail" -> {Given(<<"bot@example.com">>)}

\* core.getInput(name): the value of the input, the empty text when the
\* workflow does not set it.
getInput(e, name) == IF e[name].isSet THEN e[name].val ELSE <<>>

\* core.getInput(name, {required: true}) throws when the value is empty.
RequiredError(name) == <<"Input required and not supplied: ", name>>

\* The required input getInputs() fails on, "" when it returns.
MissingInputTokenOnly(e) ==
  IF getInput(e, "accessToken") = <<>> THEN "accessToken" ELSE ""
MissingInput(e) ==
  IF getInput(e, "accessToken") = <<>> THEN "accessToken"
  ELSE IF getInput(e, "destBranch") = <<>> THEN "destBranch"
  ELSE ""

getInputsMain(e) ==
  [accessToken |-> getInput(e, "accessToken"),
   srcDir      |-> getInput(e, "srcDir"),
   destRepo    |-> getInput(e, "destRepo"),
   destBranch  |-> getInput(e, "destBranch"),
   commitUser  |-> getInput(e, "commitUser"),
   commitEmail |-> getInput(e, "commitEmail")]

getInputsPart(e) ==
  [accessToken |-> getInput(e, "accessToken"),
   srcDir      |-> getInput(e, "srcDir"),
   destRepo    |-> getInput(e, "destRepo"),
   destBranch  |-> getInput(e, "destBranch")]

getInputs(r, e) == IF r = "main.ts" THEN getInputsMain(e) ELSE getInputsPart(e)

isDefined(optStr) == optStr # Undefined /\ Len(optStr) > 0

DefaultSrcDir == <<".">>
DefaultDestRepo == ContextOwner \o <<"/">> \o ContextRepo
DefaultCommitEmail == ContextActor \o <<"@users.noreply.github.com">>

resolveInputsMain(i) ==
  [accessToken |-> i.accessToken,
   destBranch  |-> i.destBranch,
   srcDir      |-> IF isDefined(i.srcDir) THEN i.srcDir ELSE DefaultSrcDir,
   destRepo    |-> IF isDefined(i.destRepo) THEN i.destRepo ELSE DefaultDestRepo,
   commitUser  |-> IF isDefined(i.commitUser) THEN i.commitUser ELSE ContextActor,
   commitEmail |-> IF isDefined(i.commitEmail) THEN i.commitEmail ELSE DefaultCommitEmail]

resolveInputsPart(i) ==
  [accessToken |-> i.accessToken,
   destBranch  |-> i.destBranch,
   srcDir      |-> IF i.srcDir # Undefined THEN i.srcDir ELSE DefaultSrcDir,
   destRepo    |-> IF i.destRepo # Undefined THEN i.destRepo ELSE DefaultDestRepo]

resolveInputs(r, i) == IF r = "main.ts" THEN resolveInputsMain(i) ELSE resolveInputsPart(i)

\* The identity git config is given: the resolved inputs in main.ts, fixed
\* values in part_000.
userName(r, i) == IF r = "main.ts" THEN i.commitUser ELSE <<"foo">>
userEmail(r, i) == IF r = "main.ts" THEN i.commitEmail ELSE <<"foo@example.com">>

destRepoUri(i, token) ==
  <<"https://">> \o token \o <<"@github.com/">> \o i.destRepo \o <<".git">>

\* -------------------------------------------------------------------- log
\* core.info(message)
Info(message) == message
\* exec.exec echoes the command line unless it is given {silent: true}.
CommandLine(args) == <<"[command]git">> \o Flatten(args)
\* core.setFailed(message)
ErrorLine(message) == <<"::error::">> \o message

Say(lines) == log' = log \o lines /\ logAlt' = logAlt \o lines

\* ----------------------------------------------------------------- errors
NotThrown == [at |-> "none", msg |-> <<>>]
ExecError == <<"The process git failed with exit code ", "128">>
NothingToCommitError == <<"The process git failed with exit code ", "1">>
PushRejectedError == <<"The process git failed with exit code ", "1">>
BranchCheckError == <<"Failed to check existence of destBranch in destination repository">>
MkdirError == <<"EEXIST: file already exists, mkdir">>
TmpDirError == <<"Failed to create temporary directory">>
ReadDirError == <<"ENOENT: no such file or directory, scandir">>
\* The error of an io.rmRF or io.cp that fails names the path it was given.
FileOpError(path) == <<"EPERM: operation not permitted, ", path>>
TmpDirPath == "tmpDir"

\* An error thrown inside the function withTmpDir runs: control passes to the
\* finally block.
RaiseAndRetry(at, msg) ==
  /\ thrown' = [at |-> at, msg |-> msg]
  /\ pc' = pc
Raise(at, msg) ==
  /\ thrown' = [at |-> at, msg |-> msg]
  /\ pc' = "finally"

\* An error that reaches the top-level runner: core.setFailed(e.message).
Report(lines, msg) ==
  /\ failure' = msg
  /\ outcome' = "failed"
  /\ Say(lines \o <<ErrorLine(msg)>>)
  /\ pc' = "end"

\* ------------------------------------------------------------ main, inputs
\* The input sources: every combination of the six inputs being unset, empty
\* or given.
AllEnvs ==
  [accessToken : InputValues("accessToken"), srcDir : InputValues("srcDir"),
   destRepo : InputValues("destRepo"), destBranch : InputValues("destBranch"),
   commitUser : InputValues("commitUser"), commitEmail : InputValues("commitEmail")]

\* Three of them: every optional input given, unset, empty.
OptionalKeys == {"srcDir", "destRepo", "commitUser", "commitEmail"}
GivenEnv == [k \in InputKeys |->
               CHOOSE v \in InputValues(k) : v.isSet /\ v.val # <<>> /\ v.val # <<"build">>]
PlainEnvs ==
  {GivenEnv,
   [k \in InputKeys |-> IF k \in OptionalKeys THEN Unset ELSE GivenEnv[k]],
   [k \in InputKeys |-> IF k \in OptionalKeys THEN Given(<<>>) ELSE GivenEnv[k]]}

\* The worlds a run starts in: the entries of the source directory, and the
\* destination branch, absent or with a head commit of some tree.
RootCommit(tree) == [parent |-> NoCommit, tree |-> tree, msg |-> <<"a">>]
NoCommits == [c \in {} |-> RootCommit({})]
Worlds ==
  {[src |-> s, head |-> NoCommit, commits |-> NoCommits] : s \in SUBSET Entries}
  \cup {[src |-> s, head |-> OldHead, commits |-> (OldHead :> RootCommit(t))] :
          s \in SUBSET Entries, t \in SUBSET Files}
PlainWorld == [src |-> Files, head |-> NoCommit, commits |-> NoCommits]

\* Every input source in one world, and three input sources in every world.
Init ==
  /\ rev \in Revs
  /\ \/ env \in AllEnvs /\ srcContent = PlainWorld.src
        /\ remoteHead0 = PlainWorld.head /\ commits = PlainWorld.commits
     \/ /\ env \in PlainEnvs
        /\ \E w \in Worlds :
             srcContent = w.src /\ remoteHead0 = w.head /\ commits = w.commits
  /\ remoteHead = remoteHead0
  /\ pc = "getInputs"
  /\ inputs = [accessToken |-> Undefined]
  /\ resolved = [accessToken |-> Undefined]
  /\ tryCount = 0
  /\ tmpDirs = {}
  /\ tmpDir = 0
  /\ ws = {}
  /\ index = {}
  /\ head = NoCommit
  /\ fetched = NoCommit
  /\ lsExit = -1
  /\ destBranchExists = FALSE
  /\ isNewBranch = FALSE
  /\ isNonEmpty = FALSE
  /\ hasChanges = FALSE
  /\ rmPending = {}
  /\ cpPending = {}
  /\ srcMsg = <<>>
  /\ commitTitle = <<>>
  /\ cmds = <<>>
  /\ log = <<>>
  /\ logAlt = <<>>
  /\ thrown = NotThrown
  /\ envFault = FALSE
  /\ outcome = "running"
  /\ failure = <<>>

\* main: getInputs()
GetInputs ==
  /\ pc = "getInputs"
  /\ IF MissingInput(env) # ""
     THEN /\ thrown' = [at |-> "getInputs", msg |-> RequiredError(MissingInput(env))]
          /\ Report(<<>>, RequiredError(MissingInput(env)))
          /\ UNCHANGED inputs
     ELSE /\ inputs' = getInputs(rev, env)
          /\ pc' = "resolveInputs"
          /\ UNCHANGED <<thrown, outcome, failure, log, logAlt>>
  /\ UNCHANGED <<worldVars, resolved, tmpVars, gitVars, flagVars, batchVars,
                 msgVars, cmds, envFault>>

\* main: resolveInputs(userInputs)
ResolveInputs ==
  /\ pc = "resolveInputs"
  /\ resolved' = resolveInputs(rev, inputs)
  /\ pc' = "createTmpDir"
  /\ UNCHANGED <<worldVars, inputs, tmpVars, gitVars, flagVars, batchVars,
                 msgVars, cmds, log, logAlt, thrown, envFault, outcome, failure>>

\* ------------------------------------------------- createTmpDirSync (loop)
\* while (tryCount < MAX_TRIES)
LoopsOnceMore(count) == count <= MAX_TRIES
LoopsAgain(count) == count < MAX_TRIES
\* catch (e) { if (tryCount >= MAX_TRIES) { throw e; } }
Rethrows(count) == count >= MAX_TRIES

\* One iteration of the loop: mkdirSync creates the directory and statSync
\* finds it, or one of them throws, or statSync finds no directory at the
\* path. A caught error is thrown again on the last try; otherwise the loop
\* test decides between one more iteration and the throw after the loop.
\* An error ends the run: createTmpDirSync is called outside the try block of
\* withTmpDir.
CreateTmpDirSync ==
  /\ pc = "createTmpDir"
  /\ LoopsAgain(tryCount)
  /\ tryCount' = tryCount + 1
  /\ \/ /\ tmpDirs' = tmpDirs \cup {tryCount'}
        /\ tmpDir' = tryCount'
        /\ pc' = "gitInit"
        /\ UNCHANGED <<thrown, envFault, outcome, failure, log, logAlt>>
     \/ /\ envFault' = TRUE
        /\ UNCHANGED <<tmpDirs, tmpDir>>
        /\ \E caught \in BOOLEAN :
             IF caught /\ Rethrows(tryCount')
             THEN /\ thrown' = [at |-> "createTmpDir", msg |-> MkdirError]
                  /\ Report(<<>>, MkdirError)
             ELSE IF LoopsAgain(tryCount')
             THEN UNCHANGED <<pc, thrown, outcome, failure, log, logAlt>>
             ELSE /\ thrown' = [at |-> "createTmpDir", msg |-> TmpDirError]
                  /\ Report(<<>>, TmpDirError)
  /\ UNCHANGED <<worldVars, inputs, resolved, gitVars, flagVars, batchVars,
                 msgVars, cmds>>

\* ------------------------------------------------------------------ deploy
\* exec.exec("git", args, {cwd}) that changes nothing the model tracks: the
\* command is echoed and run; a non-zero exit status throws.
ExecStep(at, next, name, lines) ==
  /\ pc = at
  /\ cmds' = Append(cmds, name)
  /\ Say(lines)
  /\ \/ /\ pc' = next
        /\ UNCHANGED <<thrown, envFault>>
     \/ /\ Raise(at, ExecError)
        /\ envFault' = TRUE
  /\ UNCHANGED <<worldVars, inputs, resolved, tmpVars, flagVars, batchVars,
                 msgVars, outcome, failure>>

GitInit ==
  /\ ExecStep("gitInit", "configName", "init",
              <<Info(<<"Initializing destination repository">>),
                CommandLine(<<(<<"init">>)>>)>>)
  /\ UNCHANGED gitVars

ConfigName ==
  /\ ExecStep("configName", "configEmail", "config",
              <<CommandLine(<<(<<"config", "--local", "user.name">>),
                              userName(rev, resolved)>>)>>)
  /\ UNCHANGED gitVars

ConfigEmail ==
  /\ ExecStep("configEmail", "remoteAdd", "config",
              <<CommandLine(<<(<<"config", "--local", "user.email">>),
                              userEmail(rev, resolved)>>)>>)
  /\ UNCHANGED gitVars

\* git remote add dest <destRepoUri>: the one command line that holds the
\* access token.
RemoteAddLine(token) ==
  CommandLine(<<(<<"remote", "add", "dest">>), destRepoUri(resolved, token)>>)

RemoteAdd ==
  /\ pc = "remoteAdd"
  /\ cmds' = Append(cmds, "remote")
  /\ log' = Append(log, RemoteAddLine(resolved.accessToken))
  /\ logAlt' = Append(logAlt, RemoteAddLine(OtherToken(resolved.accessToken)))
  /\ \/ /\ pc' = "fetch"
        /\ UNCHANGED <<thrown, envFault>>
     \/ /\ Raise("remoteAdd", ExecError)
        /\ envFault' = TRUE
  /\ UNCHANGED <<worldVars, inputs, resolved, tmpVars, gitVars, flagVars,
                 batchVars, msgVars, outcome, failure>>

Fetch ==
  /\ pc = "fetch"
  /\ cmds' = Append(cmds, "fetch")
  /\ Say(<<CommandLine(<<(<<"fetch", "dest">>)>>)>>)
  /\ \/ /\ fetched' = remoteHead
        /\ pc' = "lsRemote"
        /\ UNCHANGED <<thrown, envFault>>
     \/ /\ Raise("fetch", ExecError)
        /\ envFault' = TRUE
        /\ UNCHANGED fetched
  /\ UNCHANGED <<worldVars, inputs, resolved, tmpVars, ws, index, head, commits,
                 remoteHead, flagVars, batchVars, msgVars, outcome, failure>>

\* The switch on the exit status of git ls-remote --exit-code.
BranchCheckNonZeroIsNotFound(exitCode) ==
  IF exitCode = ExitFound THEN "found" ELSE "notFound"
BranchCheck(exitCode) ==
  CASE exitCode = ExitFound    -> "found"
    [] exitCode = ExitNotFound -> "notFound"
    [] OTHER                   -> "error"

\* Exit statuses of git ls-remote other than "found" and "no matching ref".
LsErrorExits == {1, 128}

LsRemote ==
  /\ pc = "lsRemote"
  /\ cmds' = Append(cmds, "ls-remote")
  /\ Say(<<CommandLine(<<(<<"ls-remote", "--heads", "--quiet", "--exit-code", "dest">>),
                         resolved.destBranch>>)>>)
  /\ \E exitCode \in {IF remoteHead # NoCommit THEN ExitFound ELSE ExitNotFound}
                      \cup LsErrorExits :
       /\ lsExit' = exitCode
       /\ envFault' = (envFault \/ exitCode \in LsErrorExits)
       /\ IF BranchCheck(exitCode) = "error"
          THEN /\ Raise("lsRemote", BranchCheckError)
               /\ UNCHANGED destBranchExists
          ELSE /\ destBranchExists' = (BranchCheck(exitCode) = "found")
               /\ pc' = "checkout"
               /\ UNCHANGED thrown
  /\ UNCHANGED <<worldVars, inputs, resolved, tmpVars, gitVars, isNewBranch,
                 isNonEmpty, hasChanges, batchVars, msgVars, outcome, failure>>

\* The tree of a commit; the empty tree for a branch without commit.
TreeOf(c) == IF c = NoCommit THEN {} ELSE commits[c].tree

\* The branch the run checks out: "track" for git checkout -t dest/<branch>,
\* "orphan" for git checkout --orphan <branch>.
CheckoutKind(exists) == IF exists THEN "track" ELSE "orphan"

Checkout ==
  /\ pc = "checkout"
  /\ IF CheckoutKind(destBranchExists) = "track"
     THEN /\ cmds' = Append(cmds, "checkout -t")
          /\ Say(<<Info(<<"Checking destination branch: ">> \o resolved.destBranch),
                   CommandLine(<<(<<"checkout", "-t", "dest/">>), resolved.destBranch>>)>>)
          /\ \/ /\ fetched # NoCommit
                /\ head' = fetched
                /\ index' = TreeOf(fetched)
                /\ ws' = TreeOf(fetched)
                /\ isNewBranch' = FALSE
                /\ pc' = "rmAll"
                /\ UNCHANGED <<thrown, envFault>>
             \/ /\ Raise("checkout", ExecError)
                /\ envFault' = (envFault \/ fetched # NoCommit)
                /\ UNCHANGED <<head, index, ws, isNewBranch>>
     ELSE /\ cmds' = Append(cmds, "checkout --orphan")
          /\ Say(<<Info(<<"Creating destination branch (not found in destination repo): ">>
                        \o resolved.destBranch),
                   CommandLine(<<(<<"checkout", "--orphan">>), resolved.destBranch>>)>>)
          /\ \/ /\ head' = NoCommit
                /\ isNewBranch' = TRUE
                /\ pc' = "rmAll"
                /\ UNCHANGED <<thrown, envFault, index, ws>>
             \/ /\ Raise("checkout", ExecError)
                /\ envFault' = TRUE
                /\ UNCHANGED <<head, index, ws, isNewBranch>>
  /\ UNCHANGED <<worldVars, inputs, resolved, tmpVars, fetched, commits, remoteHead,
                 lsExit, destBranchExists, isNonEmpty, hasChanges, batchVars,
                 msgVars, outcome, failure>>

\* ------------------------------------------------------- tree synchronization
\* rmAllExceptDotGit: the entries it issues an io.rmRF for.
RemovedEntries(fileNames) == fileNames \ {DotGit}

\* rmAllExceptDotGit: readdirSync(dir), which lists .git and the entries of
\* the work tree, then one io.rmRF per entry other than .git, all issued
\* before any is awaited.
RmAllExceptDotGit ==
  /\ pc = "rmAll"
  /\ Say(<<Info(<<"Setting destination content from source directory: ">>
                \o resolved.srcDir)>>)
  /\ rmPending' = RemovedEntries(ws \cup {DotGit})
  /\ pc' = "rmAwait"
  /\ UNCHANGED <<worldVars, inputs, resolved, tmpVars, gitVars, flagVars, cpPending,
                 msgVars, cmds, thrown, envFault, outcome, failure>>

\* One io.rmRF of the batch completes or fails. Promise.all rejects on the
\* first failure, while the other operations are still in progress.
RmOp ==
  /\ \E e \in rmPending :
       /\ rmPending' = rmPending \ {e}
       /\ \/ /\ ws' = ws \ {e}
             /\ UNCHANGED <<pc, thrown, envFault>>
          \/ /\ envFault' = TRUE
             /\ UNCHANGED ws
             /\ IF pc = "rmAwait"
                THEN Raise("rmAll", FileOpError(e))
                ELSE UNCHANGED <<pc, thrown>>
  /\ UNCHANGED <<worldVars, inputs, resolved, tmpVars, index, head, fetched, commits,
                 remoteHead, flagVars, cpPending, msgVars, cmds, log, logAlt,
                 outcome, failure>>

\* Promise.all(promises) resolves when every operation of the batch has
\* completed.
NotAwaited(pending) == TRUE
PromiseAll(pending) == pending = {}

\* await Promise.all(rmPromises) returns.
RmJoin ==
  /\ pc = "rmAwait"
  /\ PromiseAll(rmPending)
  /\ pc' = "cpAll"
  /\ UNCHANGED <<worldVars, inputs, resolved, tmpVars, gitVars, flagVars, batchVars,
                 msgVars, cmds, log, logAlt, thrown, envFault, outcome, failure>>

\* fs.readdirSync(srcDir): the source repository holds the directory "." and
\* no other; the entries are "missing" for a path that names no directory.
ReadDir(path) == IF path = <<".">> THEN srcContent ELSE {"missing"}

\* copyAllExceptDotGit: the entries it issues an io.cp for.
CopiedEntries(fileNames) == fileNames \ {DotGit}

\* copyAllExceptDotGit: readdirSync(srcDir), then one io.cp per entry other
\* than .git, all issued before any is awaited.
CopyAllExceptDotGit ==
  /\ pc = "cpAll"
  /\ IF ReadDir(resolved.srcDir) = {"missing"}
     THEN /\ Raise("cpAll", ReadDirError)
          /\ UNCHANGED cpPending
     ELSE /\ cpPending' = CopiedEntries(ReadDir(resolved.srcDir))
          /\ pc' = "cpAwait"
          /\ UNCHANGED thrown
  /\ UNCHANGED <<worldVars, inputs, resolved, tmpVars, gitVars, flagVars, rmPending,
                 msgVars, cmds, log, logAlt, envFault, outcome, failure>>

CpOp ==
  /\ \E e \in cpPending :
       /\ cpPending' = cpPending \ {e}
       /\ \/ /\ ws' = IF tmpDir \in tmpDirs THEN ws \cup {e} ELSE ws
             /\ UNCHANGED <<pc, thrown, envFault>>
          \/ /\ envFault' = TRUE
             /\ UNCHANGED ws
             /\ IF pc = "cpAwait"
                THEN Raise("cpAll", FileOpError(e))
                ELSE UNCHANGED <<pc, thrown>>
  /\ UNCHANGED <<worldVars, inputs, resolved, tmpVars, index, head, fetched, commits,
                 remoteHead, flagVars, rmPending, msgVars, cmds, log, logAlt,
                 outcome, failure>>

\* copyAllExceptDotGit: didCopySomething, set for every entry that is copied.
didCopySomething(fileNames) == CopiedEntries(fileNames) # {}

\* await Promise.all(cpPromises) returns, and copyAllExceptDotGit with it.
CpJoin ==
  /\ pc = "cpAwait"
  /\ PromiseAll(cpPending)
  /\ isNonEmpty' = didCopySomething(ReadDir(resolved.srcDir))
  /\ pc' = "gitAdd"
  /\ UNCHANGED <<worldVars, inputs, resolved, tmpVars, gitVars, lsExit,
                 destBranchExists, isNewBranch, hasChanges, batchVars, msgVars,
                 cmds, log, logAlt, thrown, envFault, outcome, failure>>

\* git add .: the files of the workspace are staged; git tracks no directory
\* that holds no file.
Staged(entries) == entries \cap Files

GitAdd ==
  /\ ExecStep("gitAdd", "detect", "add", <<CommandLine(<<(<<"add", ".">>)>>)>>)
  /\ index' = IF pc' = "detect" THEN Staged(ws) ELSE index
  /\ UNCHANGED <<ws, head, fetched, commits, remoteHead>>

\* ------------------------------------------------------- change detection
\* git diff-index --quiet HEAD --: 0 when the staged tree is the tree of HEAD,
\* 1 when it differs.
DiffIndexExitAgainstEmptyTree == IF index = {} THEN 0 ELSE 1
DiffIndexExit == IF index = TreeOf(head) THEN 0 ELSE 1
\* Exit statuses of git diff-index that report an error.
DiffIndexErrorExits == {128}

\* hasChanges, from isNewBranch, isNonEmpty and the exit status of diff-index.
HasChangesInverted(newBranch, nonEmpty, exitCode) ==
  IF newBranch THEN nonEmpty ELSE exitCode = 0
HasChangesAlways(newBranch, nonEmpty, exitCode) == TRUE
HasChanges(newBranch, nonEmpty, exitCode) ==
  IF newBranch THEN nonEmpty ELSE exitCode # 0

DetectChanges ==
  /\ pc = "detect"
  /\ \E exitCode \in {DiffIndexExit} \cup (IF isNewBranch THEN {} ELSE DiffIndexErrorExits) :
       /\ hasChanges' = HasChanges(isNewBranch, isNonEmpty, exitCode)
       /\ envFault' = (envFault \/ exitCode \in DiffIndexErrorExits)
  /\ cmds' = IF isNewBranch THEN cmds ELSE Append(cmds, "diff-index")
  /\ IF hasChanges'
     THEN /\ Say(<<Info(<<"Creating deployment commit">>)>>)
          /\ pc' = "commitTitle"
     ELSE /\ Say(<<Info(<<"Skipping deployment: no changes detected">>)>>)
          /\ pc' = "finally"
  /\ UNCHANGED <<worldVars, inputs, resolved, tmpVars, gitVars, lsExit,
                 destBranchExists, isNewBranch, isNonEmpty, batchVars, msgVars,
                 thrown, outcome, failure>>

\* ---------------------------------------------------------- commit message
\* getCommitTitle: message.split("\n")[0].trim(), of what git log printed.
TitleOf(message) == Trim(SplitFirst(message))

\* git log --format=%B -n 1 <sha>: the message, then a line break. The
\* command is silent.
GetCommitTitle ==
  /\ pc = "commitTitle"
  /\ cmds' = Append(cmds, "log")
  /\ \/ \E m \in Msgs :
          /\ srcMsg' = m
          /\ commitTitle' = TitleOf(m \o <<LineBreak>>)
          /\ pc' = "commit"
          /\ UNCHANGED <<thrown, envFault>>
     \/ /\ Raise("commitTitle", ExecError)
        /\ envFault' = TRUE
        /\ UNCHANGED msgVars
  /\ UNCHANGED <<worldVars, inputs, resolved, tmpVars, gitVars, flagVars, batchVars,
                 log, logAlt, outcome, failure>>

shortSha(sha) == Substr0(sha, ShortShaLen)

\* The first line of msgLines, in each revision.
FirstMsgLineMain(title) ==
  <<"Deploy(">> \o shortSha(ContextSha) \o <<"): ">> \o title
FirstMsgLinePart(title) ==
  <<"Deploy(">> \o ContextRef \o <<"@">> \o shortSha(ContextSha) \o <<"): ">> \o title
FirstMsgLine(r, title) ==
  IF r = "main.ts" THEN FirstMsgLineMain(title) ELSE FirstMsgLinePart(title)

msgLines(r, title) ==
  <<FirstMsgLine(r, title),
    <<>>,
    <<"Repo: ">> \o ContextOwner \o <<"/">> \o ContextRepo,
    <<"Workflow: ">> \o ContextWorkflow,
    <<"SHA: ">> \o ContextSha,
    <<"Ref: ">> \o ContextRef,
    <<"Actor: ">> \o ContextActor,
    <<>> >>

CommitMsg(r, title) == JoinLines(msgLines(r, title))

\* git commit -m msg: fails when the staged tree is the tree of HEAD (nothing
\* to commit), and creates a commit whose parent is HEAD otherwise.
NothingToCommit == index = TreeOf(head)

\* The id of the commit git commit creates: one no commit has yet.
FreshCommit == IF NewCommit \in DOMAIN commits THEN NextCommit ELSE NewCommit

Commit ==
  /\ pc = "commit"
  /\ cmds' = Append(cmds, "commit")
  /\ Say(<<CommandLine(<<(<<"commit", "-m">>), CommitMsg(rev, commitTitle)>>)>>)
  /\ \/ /\ ~NothingToCommit
        /\ commits' = commits @@
             (FreshCommit :> [parent |-> head, tree |-> index,
                              msg |-> CommitMsg(rev, commitTitle)])
        /\ head' = FreshCommit
        /\ pc' = "push"
        /\ UNCHANGED <<thrown, envFault>>
     \/ /\ NothingToCommit
        /\ Raise("commit", NothingToCommitError)
        /\ UNCHANGED <<commits, head, envFault>>
     \/ /\ Raise("commit", ExecError)
        /\ envFault' = TRUE
        /\ UNCHANGED <<commits, head>>
  /\ UNCHANGED <<worldVars, inputs, resolved, tmpVars, ws, index, fetched, remoteHead,
                 flagVars, batchVars, msgVars, outcome, failure>>

\* c is a or a descendant of a.
RECURSIVE Descends(_, _)
Descends(c, a) ==
  IF c = a THEN TRUE
  ELSE IF c = NoCommit THEN FALSE
  ELSE Descends(commits[c].parent, a)

\* git push dest <destBranch>: the remote takes the head of the local branch
\* when that is a fast-forward of its own, and rejects the push otherwise.
PushAccepted == Descends(head, remoteHead)

Push ==
  /\ pc = "push"
  /\ cmds' = Append(cmds, "push")
  /\ Say(<<Info(<<"Deploying">>),
           CommandLine(<<(<<"push", "dest">>), resolved.destBranch>>)>>)
  /\ \/ /\ PushAccepted
        /\ remoteHead' = head
        /\ pc' = "finally"
        /\ UNCHANGED <<thrown, envFault>>
     \/ /\ ~PushAccepted
        /\ Raise("push", PushRejectedError)
        /\ UNCHANGED <<remoteHead, envFault>>
     \/ /\ Raise("push", ExecError)
        /\ envFault' = TRUE
        /\ UNCHANGED remoteHead
  /\ UNCHANGED <<worldVars, inputs, resolved, tmpVars, ws, index, head, fetched,
                 commits, flagVars, batchVars, msgVars, outcome, failure>>

\* ------------------------------------------------------ withTmpDir: finally
\* What the run ends as when no error reaches the top-level runner.
SuccessOutcome(changes) == IF changes THEN "deployed" ELSE "skipped"

\* The workspace directories left when the finally block has run io.rmRF on
\* dir: the block runs whether or not an error e was thrown.
ReleasedUnlessThrown(dirs, dir, e) == IF e.at = "none" THEN dirs \ {dir} ELSE dirs
Released(dirs, dir, e) == dirs \ {dir}

\* withTmpDir: the finally block, await io.rmRF(tmpDir), and then the return
\* or the rethrow, up to the top-level runner. An error thrown by io.rmRF
\* replaces the error the block was entered with.
Finally ==
  /\ pc = "finally"
  /\ \/ /\ tmpDirs' = Released(tmpDirs, tmpDir, thrown)
        /\ ws' = IF tmpDir \in tmpDirs' THEN ws ELSE {}
        /\ UNCHANGED <<thrown, envFault>>
        /\ IF thrown.at # "none"
           THEN Report(<<>>, thrown.msg)
           ELSE /\ outcome' = SuccessOutcome(hasChanges)
                /\ pc' = "end"
                /\ UNCHANGED <<failure, log, logAlt>>
     \/ /\ envFault' = TRUE
        /\ thrown' = IF thrown.at # "none" THEN thrown
                     ELSE [at |-> "finally", msg |-> FileOpError(TmpDirPath)]
        /\ Report(<<>>, FileOpError(TmpDirPath))
        /\ UNCHANGED <<tmpDirs, ws>>
  /\ UNCHANGED <<worldVars, inputs, resolved, tryCount, tmpDir, index, head, fetched,
                 commits, remoteHead, flagVars, batchVars, msgVars, cmds>>

Next ==
  \/ GetInputs
  \/ ResolveInputs
  \/ CreateTmpDirSync
  \/ GitInit
  \/ ConfigName
  \/ ConfigEmail
  \/ RemoteAdd
  \/ Fetch
  \/ LsRemote
  \/ Checkout
  \/ RmAllExceptDotGit
  \/ RmOp
  \/ RmJoin
  \/ CopyAllExceptDotGit
  \/ CpOp
  \/ CpJoin
  \/ GitAdd
  \/ DetectChanges
  \/ GetCommitTitle
  \/ Commit
  \/ Push
  \/ Finally

Spec == Init /\ [][Next]_vars

\* ------------------------------------------- other writers, successive runs
\* A run whose optional inputs are all given.
InitGiven == Init /\ env = GivenEnv
\* Such a run on a source directory that holds every file and nothing else.
InitRace == InitGiven /\ srcContent = Files
\* The trees of the commits another writer pushes.
OtherTrees == {{}, Files}

\* The steps of a run that talk to the remote or decide on what it said; what
\* another writer does between two other steps of the run is what it does
\* before the next of these.
RemoteSteps == {"fetch", "lsRemote", "checkout", "commit", "push", "finally"}

\* Another run of the program pushes to the destination branch: as the push
\* of this run, it is accepted for a commit that descends from the head of
\* the remote branch, or creates the branch.
OtherPush ==
  /\ pc \in RemoteSteps
  /\ \E c \in OtherCommits \ DOMAIN commits, t \in OtherTrees :
       /\ commits' = commits @@ (c :> [parent |-> remoteHead, tree |-> t, msg |-> <<"a">>])
       /\ remoteHead' = c
  /\ UNCHANGED <<worldVars, pc, inputs, resolved, tmpVars, ws, index, head, fetched,
                 flagVars, batchVars, msgVars, cmds, log, logAlt, thrown, envFault,
                 outcome, failure>>

\* Runs of the program that deploy to the same branch at the same time.
NextRuns == Next \/ OtherPush
SpecRuns == InitRace /\ [][NextRuns]_vars

\* Another actor creates the destination branch on the remote between the
\* fetch of the run and its query of the remote head.
OtherCreate ==
  /\ pc = "lsRemote"
  /\ remoteHead = NoCommit
  /\ OtherPush

\* Another actor deletes the destination branch on the remote between the
\* fetch of the run and its query of the remote head.
OtherDelete ==
  /\ pc = "lsRemote"
  /\ remoteHead # NoCommit
  /\ remoteHead' = NoCommit
  /\ UNCHANGED <<worldVars, pc, inputs, resolved, tmpVars, ws, index, head, fetched,
                 commits, flagVars, batchVars, msgVars, cmds, log, logAlt, thrown,
                 envFault, outcome, failure>>

\* A run and an actor that creates or deletes the branch after the fetch.
NextActors == Next \/ OtherCreate \/ OtherDelete
SpecActors == InitRace /\ [][NextActors]_vars

\* The run that started where a run that deployed left the remote.
SecondRun == remoteHead0 = NewCommit

\* A run has ended as deployed and the workflow runs once more, on the same
\* inputs and the same source directory: main starts again, in a new
\* process, against the remote as the first run left it.
RunAgain ==
  /\ pc = "end" /\ outcome = "deployed" /\ ~SecondRun
  /\ remoteHead = NewCommit
  /\ remoteHead0' = remoteHead
  /\ pc' = "getInputs"
  /\ inputs' = [accessToken |-> Undefined]
  /\ resolved' = [accessToken |-> Undefined]
  /\ tryCount' = 0
  /\ tmpDir' = 0
  /\ ws' = {}
  /\ index' = {}
  /\ head' = NoCommit
  /\ fetched' = NoCommit
  /\ lsExit' = -1
  /\ destBranchExists' = FALSE
  /\ isNewBranch' = FALSE
  /\ isNonEmpty' = FALSE
  /\ hasChanges' = FALSE
  /\ srcMsg' = <<>>
  /\ commitTitle' = <<>>
  /\ cmds' = <<>>
  /\ log' = <<>>
  /\ logAlt' = <<>>
  /\ thrown' = NotThrown
  /\ envFault' = FALSE
  /\ outcome' = "running"
  /\ failure' = <<>>
  /\ UNCHANGED <<rev, env, srcContent, tmpDirs, commits, remoteHead, batchVars>>

NextTwice == Next \/ RunAgain
SpecTwice == InitGiven /\ [][NextTwice]_vars

\* ================================================================= claims
Ran(name) == \E i \in DOMAIN cmds : cmds[i] = name
Ended == pc = "end"
\* The required inputs the input source leaves unset or empty.
RequiredKeys == {"accessToken", "destBranch"}
RequiredMissing == {k \in RequiredKeys : ~env[k].isSet \/ env[k].val = <<>>}
\* resolveInputs has returned.
Resolved == RequiredMissing = {} /\ pc \notin {"getInputs", "resolveInputs"}
\* The run reads the directory "." of the source repository.
ReadsSource == Resolved /\ resolved.srcDir = <<".">>
\* The tree of the source directory: its files, .git left out.
SrcTree == srcContent \cap Files
\* The commits the run created.
Created == DOMAIN commits \ (IF remoteHead0 = NoCommit THEN {} ELSE {OldHead})

\* C1 (as stated): when the run has ended, in success or in failure, no
\* workspace directory exists.
C1_NoWorkspaceLeft == Ended => tmpDirs = {}

\* C1 (amended): when the run has ended, no workspace directory exists unless
\* the removal of the workspace itself failed, and then the run ends as
\* failed with the error of that removal. At no time does a workspace
\* directory other than the run's own exist.
C1_NoWorkspaceLeftUnlessRemovalFailed ==
  /\ tmpDirs \subseteq {tmpDir}
  /\ Ended => \/ tmpDirs = {}
              \/ outcome = "failed" /\ failure = FileOpError(TmpDirPath)

\* A run that failed at the push and whose workspace was removed.
C1_Witness ==
  Ended /\ thrown.at = "push" /\ tmpDir # 0 /\ tmpDirs = {} /\ outcome = "failed"

\* C2: when the destination branch does not exist at the start and no command
\* fails for an outside reason, a run on a non-empty source directory ends
\* with exactly one commit, which has no parent and which the remote branch
\* points at; a run on an empty source directory ends as skipped with no
\* commit and no push. A directory is taken as empty when it holds no entry
\* other than .git, which is the reading the code's copy step supports.
C2_NewBranch ==
  (Ended /\ ReadsSource /\ remoteHead0 = NoCommit /\ ~envFault) =>
    IF srcContent \ {DotGit} # {}
    THEN /\ Created = {NewCommit}
         /\ commits[NewCommit].parent = NoCommit
         /\ remoteHead = NewCommit
    ELSE /\ Created = {}
         /\ ~Ran("push")
         /\ outcome = "skipped"

\* C3: when the destination branch exists with a head tree that differs from
\* the tree of the source directory and no command fails for an outside
\* reason, the run ends as deployed with exactly one new commit, whose parent
\* is the fetched head, and the remote branch points at it.
C3_ExistingBranchChanged ==
  (Ended /\ ReadsSource /\ remoteHead0 = OldHead /\ ~envFault
     /\ SrcTree # commits[OldHead].tree) =>
    /\ Created = {NewCommit}
    /\ commits[NewCommit].parent = OldHead
    /\ fetched = OldHead
    /\ commits[NewCommit].tree = SrcTree
    /\ remoteHead = NewCommit
    /\ outcome = "deployed"

C3_Witness ==
  /\ Ended /\ ReadsSource /\ remoteHead0 = OldHead /\ ~envFault
  /\ SrcTree # commits[OldHead].tree
  /\ remoteHead = NewCommit

\* C4: when the destination branch exists with a head tree equal to the tree
\* of the source directory, the run creates no commit, runs no push and
\* leaves the remote branch where it was; when no command fails for an
\* outside reason it runs no commit command and ends as skipped.
C4_ExistingBranchSame ==
  (ReadsSource /\ remoteHead0 = OldHead /\ SrcTree = commits[OldHead].tree) =>
    /\ Created = {}
    /\ ~Ran("push")
    /\ remoteHead = remoteHead0
    /\ (Ended /\ ~envFault) => (outcome = "skipped" /\ ~Ran("commit") /\ failure = <<>>)

C4_Witness ==
  /\ Ended /\ ReadsSource /\ remoteHead0 = OldHead /\ ~envFault
  /\ SrcTree = commits[OldHead].tree /\ SrcTree # {}
  /\ DotGit \in srcContent
  /\ outcome = "skipped"

\* C5: exit status 0 of the remote head query is "found" and is followed by
\* the checkout of the tracked branch only, status 2 is "not found" and is
\* followed by the creation of an orphan branch only, and any other status
\* ends the run with the branch-check error before any checkout, change of
\* the workspace tree, commit or push.
C5_BranchCheck ==
  /\ lsExit = -1 => ~Ran("checkout -t") /\ ~Ran("checkout --orphan")
  /\ lsExit = 0 =>
       /\ destBranchExists /\ thrown.at # "lsRemote" /\ ~Ran("checkout --orphan")
       /\ pc \notin {"lsRemote", "checkout"} => Ran("checkout -t")
  /\ lsExit = 2 =>
       /\ ~destBranchExists /\ thrown.at # "lsRemote" /\ ~Ran("checkout -t")
       /\ pc \notin {"lsRemote", "checkout"} => Ran("checkout --orphan")
  /\ lsExit \notin {-1, 0, 2} =>
       /\ thrown = [at |-> "lsRemote", msg |-> BranchCheckError]
       /\ pc \in {"finally", "end"}
       /\ \A c \in {"checkout -t", "checkout --orphan", "add", "diff-index",
                    "log", "commit", "push"} : ~Ran(c)
       /\ ws = {} /\ index = {} /\ Created = {} /\ remoteHead = remoteHead0
       /\ Ended => outcome = "failed"
       /\ (Ended /\ tmpDirs = {}) => failure = BranchCheckError

C5_Witness ==
  lsExit = 128 /\ remoteHead0 = NoCommit /\ Ended /\ failure = BranchCheckError

\* C6: nothing written to the log holds the access token: the log of the run
\* is the log of the run that differs only in its access token.
C6_TokenNeverLogged == log = logAlt

\* C7: the first line of the message of a commit the run creates is
\* Deploy({ref}@{shortSha}): {commitTitle}, with shortSha the first 7
\* characters of the triggering commit's SHA and commitTitle the trimmed text
\* of the source commit's message up to its first line break.
C7_FirstLine ==
  NewCommit \in DOMAIN commits =>
    SplitFirst(commits[NewCommit].msg) =
      <<"Deploy(">> \o ContextRef \o <<"@">> \o SubSeq(ContextSha, 1, 7)
        \o <<"): ">> \o Trim(SplitFirst(srcMsg))

\* C8: when a required input is unset or empty, the run ends as failed with
\* the error that names such an input, thrown while the inputs are read: no
\* workspace directory was created and no version-control command was run.
C8_RequiredInput ==
  (RequiredMissing # {} /\ pc # "getInputs") =>
    /\ Ended /\ outcome = "failed"
    /\ \E k \in RequiredMissing : failure = RequiredError(k)
    /\ Cardinality(RequiredMissing) = 1 => \A k \in RequiredMissing : failure = RequiredError(k)
    /\ thrown.at = "getInputs"
    /\ tryCount = 0 /\ tmpDir = 0 /\ tmpDirs = {}
    /\ cmds = <<>>

C8_Witness ==
  /\ Ended /\ RequiredMissing = {"destBranch"} /\ env.destBranch = Given(<<>>)
  /\ failure = RequiredError("destBranch")

\* C9: after resolveInputs every field of the resolved configuration is
\* present and is a non-empty text. The fields are the six inputs in main.ts;
\* part_000 declares four of them, and is asked for those four only.
C9_ResolvedComplete ==
  Resolved =>
    /\ InputKeys \ {"commitUser", "commitEmail"} \subseteq DOMAIN resolved
    /\ rev = "main.ts" => DOMAIN resolved = InputKeys
    /\ \A k \in DOMAIN resolved : resolved[k] # Undefined /\ Len(resolved[k]) > 0

\* C10: a run whose srcDir input is unset or empty runs on the resolved
\* configuration of the run given the same inputs with srcDir ".", which is
\* all the rest of the run reads of its inputs.
C10_SrcDirDefault ==
  (Resolved /\ (~env.srcDir.isSet \/ env.srcDir.val = <<>>)) =>
    resolved = resolveInputs(rev, getInputs(rev, [env EXCEPT !.srcDir = Given(<<".">>)]))

\* C11: createTmpDirSync makes at most MAX_TRIES attempts and always comes to
\* an end: while it is in its loop fewer than MAX_TRIES attempts are made and
\* none has succeeded; a path is returned by the attempt that created it and
\* no attempt follows it; when MAX_TRIES attempts have failed the run has
\* ended as failed with the error of createTmpDirSync, and only then.
C11_AtMostMaxTries ==
  /\ tryCount \in 0..MAX_TRIES
  /\ pc = "createTmpDir" => (tryCount < MAX_TRIES /\ tmpDir = 0)
  /\ tmpDir # 0 => (tmpDir = tryCount /\ thrown.at # "createTmpDir")
  /\ (tmpDir = 0 /\ tryCount > 0 /\ pc # "createTmpDir") =>
       /\ tryCount = MAX_TRIES
       /\ Ended /\ outcome = "failed" /\ thrown.at = "createTmpDir"
       /\ failure \in {MkdirError, TmpDirError}

\* Every attempt failed, the last one without an error to throw again.
C11_Witness ==
  Ended /\ tryCount = MAX_TRIES /\ tmpDir = 0 /\ failure = TmpDirError

\* C12: the three phases of the synchronization never overlap: while a
\* per-entry copy is in progress, and from the moment the copies are issued,
\* no per-entry delete is in progress; when git add starts or has run, no
\* per-entry delete and no per-entry copy is in progress.
C12_PhasesInOrder ==
  /\ cpPending # {} => rmPending = {}
  /\ pc \in {"cpAll", "cpAwait"} => rmPending = {}
  /\ (pc = "gitAdd" \/ Ran("add")) => (rmPending = {} /\ cpPending = {})

\* git add has run after two deletes (the files of the fetched head) and one
\* copy (the sub-directory of the source directory).
C12_Witness ==
  /\ Ran("add") /\ fetched = OldHead /\ TreeOf(OldHead) = Files
  /\ srcContent = {"d", DotGit} /\ ws = {"d"}

\* C13: on a new orphan branch the run never runs git commit on an empty
\* staged tree: when nothing is staged, the commit and the push are not run
\* and, no command failing for an outside reason, the run ends as skipped.
C13_NoEmptyCommit ==
  /\ (isNewBranch /\ Ran("commit")) => index # {}
  /\ (Ended /\ ReadsSource /\ isNewBranch /\ ~envFault /\ index = {}) =>
       (outcome = "skipped" /\ ~Ran("push"))

\* C14: once a step has failed, no version-control command is executed any
\* more (a failed commit is not followed by the push, a failed push is not
\* run again), and no command other than the two git config calls is issued
\* twice in a run.
C14_NoCommandAfterFailure ==
  [][/\ thrown.at # "none" => cmds' = cmds
     /\ cmds' # cmds =>
          \E name \in {cmds'[Len(cmds')]} :
            /\ cmds' = Append(cmds, name)
            /\ Ran(name) => name = "config"]_vars

\* The commit failed, the run ended, and the push was never run.
C14_Witness == Ended /\ thrown.at = "commit" /\ Ran("commit") /\ ~Ran("push")

\* C15: a run that ends as failed has left the remote branch where it was
\* when the run started.
C15_FailedRunLeftRemote ==
  (Ended /\ outcome = "failed") => remoteHead = remoteHead0

\* C16: a run ends as deployed, as skipped or as failed; it has a failure
\* message exactly when it ends as failed, and the message is the one of the
\* error that was thrown first.
C16_OneReport ==
  Ended =>
    /\ outcome \in {"deployed", "skipped", "failed"}
    /\ outcome = "failed" <=> failure # <<>>
    /\ outcome = "failed" <=> thrown.at # "none"
    /\ outcome = "failed" => failure = thrown.msg

\* C19: when the finally block of withTmpDir has run io.rmRF on the
\* workspace, no per-entry delete and no per-entry copy of the run is still
\* in progress.
C19_NoOperationInFlightAtRelease ==
  (Ended /\ tmpDir # 0) => (rmPending = {} /\ cpPending = {})

\* c is a or a descendant of a among the commits cs.
RECURSIVE DescendsIn(_, _, _)
DescendsIn(cs, c, a) ==
  IF c = a THEN TRUE
  ELSE IF c = NoCommit THEN FALSE
  ELSE DescendsIn(cs, cs[c].parent, a)

\* Another run has pushed to the destination branch.
OtherWrote == OtherCommits \cap DOMAIN commits # {}

\* Whoever moves the remote branch moves it to a commit that descends from
\* the head it had, or creates the branch.
RemoteMovesForward ==
  [][remoteHead' # remoteHead => DescendsIn(commits', remoteHead', remoteHead)]_vars

\* C17: with other runs pushing to the same branch at any time, the remote
\* branch is only ever moved to a commit that descends from the head it had
\* (or created), and the step at which a run fails, no command failing for an
\* outside reason, is the push.
C17_RaceIsRejectedPush ==
  [][/\ remoteHead' # remoteHead => DescendsIn(commits', remoteHead', remoteHead)
     /\ (OtherWrote /\ thrown.at = "none" /\ thrown'.at # "none" /\ ~envFault') =>
          thrown'.at = "push"]_vars

\* C18: the answer of the remote head query agrees with what the fetch
\* brought: "found" is given only when the head of the branch was fetched and
\* the checkout of the tracked branch that follows it fails for outside
\* reasons only; "not found" is given only when no head was fetched.
C18_QueryAgreesWithFetch ==
  /\ lsExit = ExitFound => fetched # NoCommit
  /\ lsExit = ExitNotFound => fetched = NoCommit
  /\ (Ran("checkout -t") /\ ~envFault) => thrown.at # "checkout"

\* C20: the run that follows a run that deployed, on the same inputs and the
\* same source directory and with no other writer, creates no commit, runs
\* no push and leaves the remote branch where the first run put it; when no
\* command fails for an outside reason it runs no commit command and ends as
\* skipped.
C20_SecondRunSkips ==
  SecondRun =>
    /\ remoteHead = remoteHead0
    /\ DOMAIN commits \subseteq {OldHead, NewCommit}
    /\ ~Ran("push")
    /\ (Ended /\ ~envFault) => (outcome = "skipped" /\ ~Ran("commit"))

\* The second run ended as skipped after it compared the index with HEAD.
C20_Witness ==
  SecondRun /\ Ended /\ ~envFault /\ Ran("diff-index") /\ outcome = "skipped"

====
